---- MODULE Spec2Model ----
(***************************************************************************)
(* A model of the resilient transport of eventlog                          *)
(* (src/src/eventlog/transport.py): Connection, ConnectionPool,            *)
(* NetTransport.send with its retry loop, waitTillUp and the health        *)
(* checker thread, run by concurrent sender threads against an endpoint    *)
(* that may stop and resume accepting connections.                         *)
(***************************************************************************)
EXTENDS Integers, Sequences, FiniteSets, TLC

\* ---- bounds of the model ------------------------------------------------
\* a run with a lone caller, whose calls follow each other
MaxLen == 2          \* longest batch handed to send
MaxAttempts == 2     \* largest max_attempts the transport is built with
MaxPoolCap == 1      \* largest pool_cap the transport is built with
MaxConns == 2        \* Connection objects created by the pool in one run
MaxDowns == 1        \* UP -> DOWN transitions in one run
\* a run with a lone caller and longer batches
MaxBatch == 3        \* longest batch handed to send
\* a run with concurrent callers
ConcPoolCap == 1     \* largest pool_cap the transport is built with
ConcConns == 2       \* Connection objects created by the pool in one run
ConcDowns == 2       \* UP -> DOWN transitions in one run
MaxCalls == 2        \* calls of nextVal by one thread
ConcSizes == {1}     \* batch lengths handed to send
ConcAttempts == {1, 2}   \* max_attempts the transport is built with

\* the caller threads, and "no connection" (Python's None)
Senders == {"t1", "t2"}
None == 0
ConnIds == 1..(IF MaxConns > ConcConns THEN MaxConns ELSE ConcConns)

VARIABLES
    mode,           \* the run: "conc" (concurrent callers); "seq", "batch",
                    \* "live", "env", "intervals" or "conn" (a lone caller);
                    \* "counter" (the threads of testCounter)
    env,            \* the environment variables EVENTLOG_HOST and EVENTLOG_PORT
    transport,      \* what the construction of the transport gave
    tls_enable,     \* TCPSocketFactory._tls_enable
    max_attempts,   \* NetTransport._max_attempts
    pool_cap,       \* maxlen of ConnectionPool._pool
    pool,           \* ConnectionPool._pool: idle connections, oldest first
    conns,          \* every Connection created: _sock open?, _ok, socket closes
    nconns,         \* Connection objects created by the pool
    socket_count,   \* TransportStats._socket_count, the sockets_created counter
    accepted,       \* connections the endpoint accepted (senders and probes)
    status,         \* BaseTransport.status (TRUE = UP)
    up,             \* the endpoint accepts connections
    chk,            \* health-checker threads, counted by position
    downs,          \* number of UP -> DOWN transitions so far
    fails,          \* probes of the checker that failed since it last slept
    pc,             \* each sender's position in send
    msgs,           \* len(messages) of the sender's current call
    unencodable,    \* the message of the batch that is a str that cannot be
                    \* encoded as UTF-8 (0: none); chosen in a "batch" run
    attemptNum,     \* send's attemptNum
    socket_errors,  \* what the call added to the counter of socket errors
    total_msgs,     \* send's total_msgs
    idx,            \* position of the for loop over messages
    conn,           \* send's conn
    sent,           \* successful writes of each message in the current call
    takes,          \* connections the call asked the pool for
    startedDown,    \* the call began while the status was DOWN
    sawUp,          \* the endpoint accepted connections at some time of the call
    usedPool,       \* the call obtained a connection from the idle pool
    failedDown,     \* a send raised with the endpoint unreachable, and it still is
    steady,         \* so far the endpoint stayed up, no connect or write failed,
                    \* and nobody called closePoolConnections
    exInfo,         \* send's exInfo: the description of the last exception caught
    total_bytes,    \* send's total_bytes
    stats,          \* what the call added to the counters sent_msgs_total,
                    \* sent_bytes_total and time_elapsed_sec (number of additions)
    closedUnder,    \* a closeAll returned while the caller held its connection
    accSince,       \* connections the endpoint accepted since the lone
                    \* caller's call began
    wire,           \* what the current attempt wrote: the connection and the
                    \* message of each sendall that returned, in order
    HEALTHCHECK_INTERVAL_SEC,        \* the setting, read when the module loads
    HEALTHCHECK_PRINT_INTERVAL_SEC,  \* the setting, read when the module loads
    late,           \* sendall was called on a connection after its close()
    ctr             \* an AtomicCounter and the threads that call its nextVal

vars == <<mode, env, transport, tls_enable, max_attempts, pool_cap, pool, conns, nconns,
          socket_count, accepted, status, up, chk, downs, pc, msgs, unencodable, attemptNum,
          total_msgs, idx, conn, sent, takes, startedDown, sawUp, usedPool,
          failedDown, steady, exInfo, total_bytes, stats, closedUnder,
          accSince, wire, ctr, fails, socket_errors, late,
          HEALTHCHECK_INTERVAL_SEC,
          HEALTHCHECK_PRINT_INTERVAL_SEC>>

cfgVars == <<mode, env, transport, tls_enable, max_attempts, pool_cap, ctr, late,
            HEALTHCHECK_INTERVAL_SEC, HEALTHCHECK_PRINT_INTERVAL_SEC>>
histVars == <<startedDown, sawUp, usedPool, failedDown, steady>>
chkVars == <<chk, downs, fails>>
loopVars == <<msgs, unencodable, attemptNum, socket_errors, total_msgs, idx, sent, takes>>
netVars == <<nconns, socket_count, accepted>>
callVars == <<exInfo, total_bytes, stats, closedUnder, accSince, wire>>

\* ---- Connection ----------------------------------------------------------
NewConn == [sock |-> TRUE, ok |-> TRUE, closes |-> 0]
NoConn == [sock |-> FALSE, ok |-> FALSE, closes |-> 0]

\* checker threads that exist
Running == chk.probe + chk.setup + chk.sleep

\* (a check that takes every connection for good)
isGoodAlways(c) == TRUE
\* Connection.isGood: self._sock is not None and self._ok
isGood(c) == conns[c].sock /\ conns[c].ok

\* (a close that closes the socket and keeps the reference to it)
closeKeepsSocket(cs, c) ==
    [cs EXCEPT ![c] = [sock |-> @.sock, ok |-> FALSE,
                       closes |-> IF @.sock THEN @.closes + 1 ELSE @.closes]]

\* Connection.close: closes the socket if there is one, then _ok = False, _sock = None
close(cs, c) ==
    [cs EXCEPT ![c] = [sock |-> FALSE, ok |-> FALSE,
                       closes |-> IF @.sock THEN @.closes + 1 ELSE @.closes]]

\* Connection.reject: _ok = False, then close()
reject(cs, c) == close([cs EXCEPT ![c].ok = FALSE], c)

\* ---- ConnectionPool --------------------------------------------------------
\* (an append to a deque without maxlen)
dequeAppendUnbounded(q, c, cap) == Append(q, c)
\* deque([], maxlen=cap).append(c): a full deque drops its oldest element
dequeAppend(q, c, cap) ==
    IF cap = 0 THEN q
    ELSE IF Len(q) >= cap THEN Append(Tail(q), c)
    ELSE Append(q, c)

\* deque.pop(): the newest element, and the rest
popped(q) == q[Len(q)]
\* (a pop that hands out the newest element and leaves it in the deque)
afterPopKeeps(q) == q
afterPop(q) == SubSeq(q, 1, Len(q) - 1)

\* ---- NetTransport.send: the decisions of the retry loop --------------------
\* (a loop that gives up one attempt early)
LoopStopsEarly(total, n, attempts) == total < n /\ attempts + 1 < max_attempts
\* (a loop that does not try while the status is DOWN)
LoopNeedsUp(total, n, attempts) ==
    total < n /\ attempts < max_attempts /\ status
\* (a loop that allows one attempt more)
LoopOneMore(total, n, attempts) == total < n /\ attempts <= max_attempts
\* while total_msgs < len(messages) and attemptNum < self._max_attempts
LoopContinues(total, n, attempts) == total < n /\ attempts < max_attempts

\* for m in messages: every attempt starts at the first message of the batch
FirstIndex(total) == 1

\* (a test that also fails a call that sent exactly the batch)
MustRaiseOffByOne(total, n) == total <= n
\* if total_msgs < len(messages): waitTillUp(); closePoolConnections(); raise
MustRaise(total, n) == total < n

\* if attemptNum < self._max_attempts: time.sleep(0.05)
Sleeps(attempts) == attempts < max_attempts

\* (a waitTillUp that does not look at the status)
StartsCheckerAlways == TRUE
\* waitTillUp: if not self.checkStatus(): return
StartsChecker == status

\* exInfo = "" before any error; str(e) of the exception that ended the k-th
\* failed attempt of a call (every exception has its own description)
NoError == << >>
str(k) == <<"error", k>>

\* len(m) of the i-th message of a batch: the messages differ in length
MsgLen(i) == i + 1

\* Counter.inc(n)
inc(counter, n) == counter + n

NoStats == [events_sent |-> 0, bytes_sent |-> 0, time_elapsed |-> 0]

\* (a send that records its stats only when it is about to return)
RecordedOnReturn(st, next, msgs_n, bytes_n) ==
    IF next = "returned"
    THEN [events_sent |-> inc(st.events_sent, msgs_n),
          bytes_sent |-> inc(st.bytes_sent, bytes_n),
          time_elapsed |-> inc(st.time_elapsed, 1)]
    ELSE st
\* after the loop: stats.events_sent(total_msgs), stats.bytes_sent(total_bytes),
\* stats.time_elapsed(...); next is where send goes from the while test
Recorded(st, next, msgs_n, bytes_n) ==
    IF next \in {"returned", "waitTillUp"}
    THEN [events_sent |-> inc(st.events_sent, msgs_n),
          bytes_sent |-> inc(st.bytes_sent, bytes_n),
          time_elapsed |-> inc(st.time_elapsed, 1)]
    ELSE st

\* the while test, and what follows the loop when it ends: the stats are
\* recorded, then send returns or goes on to waitTillUp
AfterLoopTest(total, n, attempts) ==
    IF LoopContinues(total, n, attempts) THEN "take"
    ELSE IF MustRaise(total, n) THEN "waitTillUp"
    ELSE "returned"

AfterAttempt(s, attempts) ==
    IF Sleeps(attempts) THEN "sleep"
    ELSE AfterLoopTest(total_msgs[s], msgs[s], attempts)

\* the caller is between two calls
Idle(s) == pc[s] \in {"idle", "returned", "raised"}

\* ---- NetTransport.createFromEnv ------------------------------------------------
\* an environment variable that is not set, and the values of the two variables
Unset == "<unset>"
Hosts == {Unset, "", "collector"}
Ports == {Unset, "", "0", "514", "51x"}
NoEnv == [EVENTLOG_HOST |-> Unset, EVENTLOG_PORT |-> Unset]

\* getConfigSetting(key, default): the value of the variable, else the default
getConfigSetting(e, key, default) == IF e[key] = Unset THEN default ELSE e[key]

\* int(s) of a string: a ValueError unless s is a decimal number
IsNumber(s) == s \in {"0", "514"}
int(s) == CASE s = "0" -> 0 [] s = "514" -> 514

\* (a createFromEnv that builds the transport whatever host and port are)
createFromEnvUnchecked(e) ==
    IF ~IsNumber(getConfigSetting(e, "EVENTLOG_PORT", "0"))
    THEN "ValueError"
    ELSE "NetTransport"
\* createFromEnv: int(port) is evaluated first; `if host and port` builds the
\* transport, else None is returned
createFromEnv(e) ==
    LET host == getConfigSetting(e, "EVENTLOG_HOST", Unset)
        port == getConfigSetting(e, "EVENTLOG_PORT", "0")
    IN  IF ~IsNumber(port) THEN "ValueError"
        ELSE IF host \notin {Unset, ""} /\ int(port) # 0 THEN "NetTransport"
        ELSE "None"

\* the limits of the run; the history of a call is kept for a lone caller
lone == mode \in {"seq", "batch"}
Callers == IF mode = "conc" THEN Senders ELSE {"t1"}
\* the places a str that cannot be encoded may have in a batch of n (0: the
\* batch has none)
StrMessages(n) == IF mode = "batch" THEN 0..n ELSE {0}
\* the record of what the caller's attempt wrote becomes w
WireAfter(s, w) == IF lone THEN [wire EXCEPT ![s] = w] ELSE wire
Sizes ==
    IF mode = "seq" THEN 1..MaxLen
    ELSE IF mode = "batch" THEN 1..MaxBatch
    ELSE ConcSizes
ConnCap == IF lone THEN MaxConns ELSE ConcConns
DownCap == IF lone THEN MaxDowns ELSE ConcDowns
AllSizes == (1..MaxLen) \cup (1..MaxBatch) \cup ConcSizes

\* ---- AtomicCounter -------------------------------------------------------
NoThread == "<free>"
\* the values a counter is constructed with
Initials == {0, 7}
Classes == {"AtomicCounterC", "AtomicCounterP"}

\* AtomicCounterC.__init__ and AtomicCounterP.__init__: the counter starts at
\* initial, the lock is free; no thread has called nextVal
NewCounter(clz, initial) ==
    [clz |-> clz, initial |-> initial, value |-> initial, lock |-> NoThread,
     threads |-> Senders,
     pc |-> [t \in Senders |-> "idle"], v |-> [t \in Senders |-> 0],
     ret |-> [t \in Senders |-> << >>]]
\* a run in which nobody uses a counter
NoCounter == NewCounter("AtomicCounterC", 0)

\* ---- the settings of the health check -----------------------------------------
DefaultCheckInterval == 3
DefaultPrintInterval == 60
\* no EVENTLOG_HEALTHCHECK_* variable is set
DefaultIntervals ==
    /\ HEALTHCHECK_INTERVAL_SEC = DefaultCheckInterval
    /\ HEALTHCHECK_PRINT_INTERVAL_SEC = DefaultPrintInterval
\* values the two variables are set to
Intervals == {1, 3, 60}
\* Python's // of two positive integers
FloorDiv(a, b) == a \div b
\* the divisor of the test `tick % (... // ...) == 0`
PrintEvery == FloorDiv(HEALTHCHECK_PRINT_INTERVAL_SEC, HEALTHCHECK_INTERVAL_SEC)
\* tick % 0 raises ZeroDivisionError
DivisionRaises == PrintEvery = 0
FailCap == 2

Start ==
    /\ pool = << >>
    /\ conns = [c \in ConnIds |-> NoConn]
    /\ nconns = 0
    /\ socket_count = 0
    /\ accepted = 0
    /\ status = TRUE
    /\ up \in BOOLEAN
    /\ chk = [probe |-> 0, setup |-> 0, sleep |-> 0]
    /\ downs = 0
    /\ fails = 0
    /\ late = FALSE
    /\ pc = [s \in Senders |-> "idle"]
    /\ msgs = [s \in Senders |-> 0]
    /\ unencodable = [s \in Senders |-> 0]
    /\ attemptNum = [s \in Senders |-> 0]
    /\ socket_errors = [s \in Senders |-> 0]
    /\ total_msgs = [s \in Senders |-> 0]
    /\ idx = [s \in Senders |-> 0]
    /\ conn = [s \in Senders |-> None]
    /\ sent = [s \in Senders |-> << >>]
    /\ takes = [s \in Senders |-> 0]
    /\ startedDown = [s \in Senders |-> FALSE]
    /\ sawUp = [s \in Senders |-> FALSE]
    /\ usedPool = [s \in Senders |-> FALSE]
    /\ failedDown = FALSE
    /\ steady = (lone /\ up)
    /\ exInfo = [s \in Senders |-> NoError]
    /\ total_bytes = [s \in Senders |-> 0]
    /\ stats = [s \in Senders |-> NoStats]
    /\ closedUnder = [s \in Senders |-> FALSE]
    /\ accSince = 0
    /\ wire = [s \in Senders |-> << >>]

\* concurrent callers
Init ==
    /\ mode = "conc"
    /\ env = NoEnv
    /\ transport = "NetTransport"
    /\ tls_enable = FALSE
    /\ max_attempts \in ConcAttempts
    /\ pool_cap \in {0, ConcPoolCap}
    /\ ctr = NoCounter
    /\ DefaultIntervals
    /\ Start

\* a lone caller
InitSeq ==
    /\ mode = "seq"
    /\ env = NoEnv
    /\ transport = "NetTransport"
    /\ tls_enable \in BOOLEAN
    /\ max_attempts \in 1..MaxAttempts
    /\ pool_cap \in 0..MaxPoolCap
    /\ ctr = NoCounter
    /\ DefaultIntervals
    /\ Start

\* a lone caller with longer batches, the transport built with the largest
\* max_attempts and pool_cap
InitBatch ==
    /\ mode = "batch"
    /\ env = NoEnv
    /\ transport = "NetTransport"
    /\ tls_enable = FALSE
    /\ max_attempts = MaxAttempts
    /\ pool_cap = MaxPoolCap
    /\ ctr = NoCounter
    /\ DefaultIntervals
    /\ Start

\* a lone caller, the transport built by createFromEnv from the environment
InitEnv ==
    /\ mode = "env"
    /\ env \in [EVENTLOG_HOST : Hosts, EVENTLOG_PORT : Ports]
    /\ transport = createFromEnv(env)
    /\ tls_enable = FALSE
    /\ max_attempts \in ConcAttempts
    /\ pool_cap \in {0, ConcPoolCap}
    /\ ctr = NoCounter
    /\ DefaultIntervals
    /\ Start

\* a lone caller, for the progress of the health checker
InitLive ==
    /\ mode = "live"
    /\ env = NoEnv
    /\ transport = "NetTransport"
    /\ tls_enable = FALSE
    /\ max_attempts \in ConcAttempts
    /\ pool_cap \in {0, ConcPoolCap}
    /\ ctr = NoCounter
    /\ DefaultIntervals
    /\ Start

\* a lone caller, the two settings of the health check drawn from Intervals
InitIntervals ==
    /\ mode = "intervals"
    /\ env = NoEnv
    /\ transport = "NetTransport"
    /\ tls_enable = FALSE
    /\ max_attempts = 1
    /\ pool_cap = ConcPoolCap
    /\ ctr = NoCounter
    /\ HEALTHCHECK_INTERVAL_SEC \in Intervals
    /\ HEALTHCHECK_PRINT_INTERVAL_SEC \in Intervals
    /\ Start

\* ---- send ------------------------------------------------------------------
\* send(messages) is called with a batch of n messages
Call(s, n) ==
    /\ transport = "NetTransport"
    /\ s \in Callers
    /\ n \in Sizes
    /\ Idle(s)
    /\ pc' = [pc EXCEPT ![s] = AfterLoopTest(0, n, 0)]
    /\ msgs' = [msgs EXCEPT ![s] = n]
    /\ \E bad \in StrMessages(n) : unencodable' = [unencodable EXCEPT ![s] = bad]
    /\ attemptNum' = [attemptNum EXCEPT ![s] = 0]
    /\ socket_errors' = [socket_errors EXCEPT ![s] = 0]
    /\ total_msgs' = [total_msgs EXCEPT ![s] = 0]
    /\ idx' = [idx EXCEPT ![s] = 0]
    /\ conn' = [conn EXCEPT ![s] = None]
    /\ sent' = [sent EXCEPT ![s] = [i \in 1..n |-> 0]]
    /\ takes' = [takes EXCEPT ![s] = 0]
    /\ startedDown' = [startedDown EXCEPT ![s] = lone /\ ~status]
    /\ sawUp' = [sawUp EXCEPT ![s] = lone /\ up]
    /\ usedPool' = [usedPool EXCEPT ![s] = FALSE]
    /\ UNCHANGED <<cfgVars, pool, conns, netVars, status, up, chkVars,
                   failedDown, steady>>
    /\ exInfo' = [exInfo EXCEPT ![s] = NoError]
    /\ total_bytes' = [total_bytes EXCEPT ![s] = 0]
    /\ stats' = [stats EXCEPT ![s] = NoStats]
    /\ accSince' = 0
    /\ wire' = WireAfter(s, << >>)
    /\ UNCHANGED closedUnder

\* ConnectionPool.take, one turn of its loop on a non-empty pool:
\* pop the newest idle connection, return it if good, close it otherwise
TakePooled(s) ==
    /\ pc[s] = "take"
    /\ pool # << >>
    /\ pool' = afterPop(pool)
    /\ IF isGood(popped(pool))
       THEN /\ conn' = [conn EXCEPT ![s] = popped(pool)]
            /\ takes' = [takes EXCEPT ![s] = @ + 1]
            /\ usedPool' = [usedPool EXCEPT ![s] = lone]
            /\ idx' = [idx EXCEPT ![s] = FirstIndex(total_msgs[s])]
            /\ pc' = [pc EXCEPT ![s] = "send"]
            /\ wire' = WireAfter(s, << >>)
            /\ UNCHANGED conns
       ELSE /\ conns' = close(conns, popped(pool))
            /\ UNCHANGED <<conn, takes, usedPool, idx, pc, wire>>
    /\ UNCHANGED <<cfgVars, netVars, status, up, chkVars, msgs, unencodable, attemptNum, socket_errors,
                   total_msgs, sent, startedDown, sawUp, failedDown, steady>>
    /\ UNCHANGED <<exInfo, total_bytes, stats, closedUnder, accSince>>

\* (a take that connects twice for one connection)
TakeCreateTwice(s) ==
    /\ pc[s] = "take"
    /\ pool = << >>
    /\ up
    /\ nconns < ConnCap
    /\ nconns' = nconns + 1
    /\ socket_count' = IF tls_enable THEN socket_count ELSE socket_count + 1
    /\ accepted' = accepted + 2
    /\ conns' = [conns EXCEPT ![nconns + 1] = NewConn]
    /\ conn' = [conn EXCEPT ![s] = nconns + 1]
    /\ takes' = [takes EXCEPT ![s] = @ + 1]
    /\ idx' = [idx EXCEPT ![s] = FirstIndex(total_msgs[s])]
    /\ pc' = [pc EXCEPT ![s] = "send"]
    /\ UNCHANGED <<cfgVars, pool, status, up, chkVars, msgs, unencodable, attemptNum, socket_errors,
                   total_msgs, sent, histVars>>
    /\ accSince' = IF lone THEN accSince + 2 ELSE accSince
    /\ wire' = WireAfter(s, << >>)
    /\ UNCHANGED <<exInfo, total_bytes, stats, closedUnder>>

\* ConnectionPool.take on an empty pool: _makeConnection, the endpoint accepts;
\* create_socket counts the socket in plain TCP mode only
TakeCreate(s) ==
    /\ pc[s] = "take"
    /\ pool = << >>
    /\ up
    /\ nconns < ConnCap
    /\ nconns' = nconns + 1
    /\ socket_count' = IF tls_enable THEN socket_count ELSE socket_count + 1
    /\ accepted' = accepted + 1
    /\ conns' = [conns EXCEPT ![nconns + 1] = NewConn]
    /\ conn' = [conn EXCEPT ![s] = nconns + 1]
    /\ takes' = [takes EXCEPT ![s] = @ + 1]
    /\ idx' = [idx EXCEPT ![s] = FirstIndex(total_msgs[s])]
    /\ pc' = [pc EXCEPT ![s] = "send"]
    /\ UNCHANGED <<cfgVars, pool, status, up, chkVars, msgs, unencodable, attemptNum, socket_errors,
                   total_msgs, sent, histVars>>
    /\ accSince' = IF lone THEN accSince + 1 ELSE accSince
    /\ wire' = WireAfter(s, << >>)
    /\ UNCHANGED <<exInfo, total_bytes, stats, closedUnder>>

\* ConnectionPool.take on an empty pool: create_socket raises, conn stays None
TakeFail(s) ==
    /\ pc[s] = "take"
    /\ pool = << >>
    /\ ~up
    /\ takes' = [takes EXCEPT ![s] = @ + 1]
    /\ pc' = [pc EXCEPT ![s] = "except"]
    /\ steady' = FALSE
    /\ UNCHANGED <<cfgVars, pool, conns, netVars, status, up, chkVars, msgs, unencodable,
                   attemptNum, socket_errors, total_msgs, idx, sent, conn, startedDown, sawUp,
                   usedPool, failedDown>>
    /\ wire' = WireAfter(s, << >>)
    /\ UNCHANGED <<exInfo, total_bytes, stats, closedUnder, accSince>>

\* (a loop that walks the batch backwards)
MessageAtReversed(n, k) == n - k + 1
\* the message the k-th pass of "for m in messages" hands to sendall, as its
\* place in a batch of n
MessageAt(n, k) == k

\* conn.sendall(m) returns: total_msgs += 1, and the for loop moves on
SendOk(s) ==
    /\ pc[s] = "send"
    /\ MessageAt(msgs[s], idx[s]) # unencodable[s]
    /\ conns' = [conns EXCEPT ![conn[s]].ok = TRUE]
    /\ sent' = [sent EXCEPT ![s][MessageAt(msgs[s], idx[s])] = @ + 1]
    /\ total_msgs' = [total_msgs EXCEPT ![s] = @ + 1]
    /\ idx' = [idx EXCEPT ![s] = @ + 1]
    /\ pc' = [pc EXCEPT ![s] = IF idx[s] < msgs[s] THEN "send" ELSE "release"]
    /\ UNCHANGED <<cfgVars, pool, netVars, status, up, chkVars, msgs, unencodable,
                   attemptNum, socket_errors, takes, conn, histVars>>
    /\ total_bytes' = [total_bytes EXCEPT ![s] =
                            @ + MsgLen(MessageAt(msgs[s], idx[s]))]
    /\ wire' = WireAfter(s, Append(wire[s],
                                    [conn |-> conn[s],
                                     m |-> MessageAt(msgs[s], idx[s])]))
    /\ UNCHANGED <<exInfo, stats, closedUnder, accSince>>

\* (a sendall that raises and leaves the connection flagged good)
SendFailKeepsGood(s) ==
    /\ pc[s] = "send"
    /\ UNCHANGED conns
    /\ pc' = [pc EXCEPT ![s] = "except"]
    /\ steady' = FALSE
    /\ UNCHANGED <<cfgVars, pool, netVars, status, up, chkVars, loopVars, conn,
                   startedDown, sawUp, usedPool, failedDown>>
    /\ UNCHANGED callVars

\* conn.sendall(m) raises: bytes(data, 'UTF8') raises for a str that cannot be
\* encoded, before _ok is touched; else _ok = False is set and the write raises
SendFail(s) ==
    /\ pc[s] = "send"
    /\ conns' = IF MessageAt(msgs[s], idx[s]) = unencodable[s]
                THEN conns
                ELSE [conns EXCEPT ![conn[s]].ok = FALSE]
    /\ pc' = [pc EXCEPT ![s] = "except"]
    /\ steady' = FALSE
    /\ UNCHANGED <<cfgVars, pool, netVars, status, up, chkVars, loopVars, conn,
                   startedDown, sawUp, usedPool, failedDown>>
    /\ UNCHANGED callVars

\* (a handler that counts a socket error only when it held a connection)
ExceptCountsWrites(s) ==
    /\ pc[s] = "except"
    /\ conns' = IF conn[s] # None THEN reject(conns, conn[s]) ELSE conns
    /\ attemptNum' = [attemptNum EXCEPT ![s] = @ + 1]
    /\ socket_errors' = [socket_errors EXCEPT ![s] =
                            IF conn[s] # None THEN inc(@, 1) ELSE @]
    /\ pc' = [pc EXCEPT ![s] = "release"]
    /\ UNCHANGED <<cfgVars, pool, netVars, status, up, chkVars, msgs, unencodable,
                   total_msgs, idx, sent, takes, conn, histVars>>
    /\ exInfo' = [exInfo EXCEPT ![s] = str(attemptNum[s] + 1)]
    /\ UNCHANGED <<total_bytes, stats, closedUnder, accSince, wire>>

\* except Exception: reject the connection if any, attemptNum += 1,
\* self.stats.socket_error()
Except(s) ==
    /\ pc[s] = "except"
    /\ conns' = IF conn[s] # None THEN reject(conns, conn[s]) ELSE conns
    /\ attemptNum' = [attemptNum EXCEPT ![s] = @ + 1]
    /\ socket_errors' = [socket_errors EXCEPT ![s] = inc(@, 1)]
    /\ pc' = [pc EXCEPT ![s] = "release"]
    /\ UNCHANGED <<cfgVars, pool, netVars, status, up, chkVars, msgs, unencodable,
                   total_msgs, idx, sent, takes, conn, histVars>>
    /\ exInfo' = [exInfo EXCEPT ![s] = str(attemptNum[s] + 1)]
    /\ UNCHANGED <<total_bytes, stats, closedUnder, accSince, wire>>

\* (a release that puts the connection back without asking isGood)
ReleaseUnchecked(s) ==
    /\ pc[s] = "release"
    /\ IF conn[s] = None
       THEN UNCHANGED <<pool, conns>>
       ELSE /\ pool' = dequeAppend(pool, conn[s], pool_cap)
            /\ UNCHANGED conns
    /\ conn' = [conn EXCEPT ![s] = None]
    /\ pc' = [pc EXCEPT ![s] = AfterAttempt(s, attemptNum[s])]
    /\ UNCHANGED <<cfgVars, netVars, status, up, chkVars, loopVars, histVars>>
    /\ stats' = [stats EXCEPT ![s] =
                  Recorded(@, AfterAttempt(s, attemptNum[s]),
                           total_msgs[s], total_bytes[s])]
    /\ closedUnder' = [closedUnder EXCEPT ![s] = FALSE]
    /\ UNCHANGED <<exInfo, total_bytes, accSince, wire>>

\* finally: self._pool.release(conn), then the test that guards the sleep
Release(s) ==
    /\ pc[s] = "release"
    /\ IF conn[s] = None
       THEN UNCHANGED <<pool, conns>>
       ELSE IF isGood(conn[s])
            THEN /\ pool' = dequeAppend(pool, conn[s], pool_cap)
                 /\ UNCHANGED conns
            ELSE /\ conns' = close(conns, conn[s])
                 /\ UNCHANGED pool
    /\ conn' = [conn EXCEPT ![s] = None]
    /\ pc' = [pc EXCEPT ![s] = AfterAttempt(s, attemptNum[s])]
    /\ UNCHANGED <<cfgVars, netVars, status, up, chkVars, loopVars, histVars>>
    /\ stats' = [stats EXCEPT ![s] =
                  Recorded(@, AfterAttempt(s, attemptNum[s]),
                           total_msgs[s], total_bytes[s])]
    /\ closedUnder' = [closedUnder EXCEPT ![s] = FALSE]
    /\ UNCHANGED <<exInfo, total_bytes, accSince, wire>>

\* time.sleep(0.05), then the while test
Sleep(s) ==
    /\ pc[s] = "sleep"
    /\ pc' = [pc EXCEPT ![s] =
                AfterLoopTest(total_msgs[s], msgs[s], attemptNum[s])]
    /\ UNCHANGED <<cfgVars, pool, conns, netVars, status, up, chkVars,
                   loopVars, conn, histVars>>
    /\ stats' = [stats EXCEPT ![s] =
                  Recorded(@, AfterLoopTest(total_msgs[s], msgs[s], attemptNum[s]),
                           total_msgs[s], total_bytes[s])]
    /\ UNCHANGED <<exInfo, total_bytes, closedUnder, accSince, wire>>

\* waitTillUp, the block under statusLock: return if DOWN, else set DOWN
WaitTillUp(s) ==
    /\ pc[s] = "waitTillUp"
    /\ IF StartsChecker
       THEN /\ status => downs < DownCap
            /\ status' = FALSE
            /\ downs' = IF status THEN downs + 1 ELSE downs
            /\ pc' = [pc EXCEPT ![s] = "startThread"]
       ELSE /\ pc' = [pc EXCEPT ![s] = "closeAll"]
            /\ UNCHANGED <<status, downs>>
    /\ UNCHANGED <<cfgVars, pool, conns, netVars, up, chk, fails, loopVars, conn,
                   histVars>>
    /\ UNCHANGED callVars

\* waitTillUp, after the lock is released: the checker thread is started
StartThread(s) ==
    /\ pc[s] = "startThread"
    /\ chk' = [chk EXCEPT !.probe = @ + 1]
    /\ pc' = [pc EXCEPT ![s] = "closeAll"]
    /\ UNCHANGED <<cfgVars, pool, conns, netVars, status, up, downs, fails, loopVars,
                   conn, histVars>>
    /\ UNCHANGED callVars

\* (a send that raises without closePoolConnections)
CloseAllSkips(s) ==
    /\ pc[s] = "closeAll"
    /\ pc' = [pc EXCEPT ![s] = "raised"]
    /\ failedDown' = (failedDown \/ (lone /\ ~sawUp[s] /\ ~up))
    /\ UNCHANGED <<cfgVars, pool, conns, netVars, status, up, chkVars,
                   loopVars, conn, startedDown, sawUp, usedPool, steady,
                   callVars>>

\* closePoolConnections in send, one turn of closeAll's loop; on an empty pool
\* closeAll returns and send raises
CloseAll(s) ==
    /\ pc[s] = "closeAll"
    /\ IF pool # << >>
       THEN /\ pool' = afterPop(pool)
            /\ conns' = close(conns, popped(pool))
            /\ UNCHANGED <<pc, failedDown>>
       ELSE /\ pc' = [pc EXCEPT ![s] = "raised"]
            /\ failedDown' = (failedDown \/ (lone /\ ~sawUp[s] /\ ~up))
            /\ UNCHANGED <<pool, conns>>
    /\ UNCHANGED <<cfgVars, netVars, status, up, chkVars, loopVars, conn,
                   startedDown, sawUp, usedPool, steady>>
    /\ closedUnder' = [t \in Senders |->
           closedUnder[t] \/ (pool = << >> /\ conn[t] # None)]
    /\ UNCHANGED <<exInfo, total_bytes, stats, accSince, wire>>

\* closePoolConnections called by the application itself
CallClose(s) ==
    /\ transport = "NetTransport"
    /\ s \in Callers
    /\ Idle(s)
    /\ pc' = [pc EXCEPT ![s] = "userClose"]
    /\ steady' = FALSE
    /\ UNCHANGED <<cfgVars, pool, conns, netVars, status, up, chkVars,
                   loopVars, conn, startedDown, sawUp, usedPool, failedDown>>
    /\ UNCHANGED callVars

\* one turn of closeAll's loop, for the application
UserClose(s) ==
    /\ pc[s] = "userClose"
    /\ IF pool # << >>
       THEN /\ pool' = afterPop(pool)
            /\ conns' = close(conns, popped(pool))
            /\ UNCHANGED pc
       ELSE /\ pc' = [pc EXCEPT ![s] = "idle"]
            /\ UNCHANGED <<pool, conns>>
    /\ UNCHANGED <<cfgVars, netVars, status, up, chkVars, loopVars, conn,
                   histVars>>
    /\ closedUnder' = [t \in Senders |->
           closedUnder[t] \/ (pool = << >> /\ conn[t] # None)]
    /\ UNCHANGED <<exInfo, total_bytes, stats, accSince, wire>>

\* ---- the health checker ------------------------------------------------------
\* (a checker that probes and sets the status under one hold of statusLock)
ProbeOkLocked ==
    /\ chk.probe > 0
    /\ up
    /\ chk' = [chk EXCEPT !.probe = @ - 1]
    /\ accepted' = accepted + 1
    /\ status' = TRUE
    /\ UNCHANGED <<cfgVars, pool, conns, nconns, socket_count, up,
                   downs, fails, pc, loopVars, conn, histVars>>
    /\ accSince' = IF lone /\ ~Idle("t1") THEN accSince + 1 ELSE accSince
    /\ UNCHANGED <<exInfo, total_bytes, stats, closedUnder, wire>>

\* transport.checkConnection() succeeds: a throw-away socket, not counted
ProbeOk ==
    /\ chk.probe > 0
    /\ up
    /\ chk' = [chk EXCEPT !.probe = @ - 1, !.setup = @ + 1]
    /\ accepted' = accepted + 1
    /\ UNCHANGED <<cfgVars, pool, conns, nconns, socket_count, status, up,
                   downs, fails, pc, loopVars, conn, histVars>>
    /\ accSince' = IF lone /\ ~Idle("t1") THEN accSince + 1 ELSE accSince
    /\ UNCHANGED <<exInfo, total_bytes, stats, closedUnder, wire>>

\* transport.checkConnection() raises. The second try block counts the tick and
\* evaluates tick % (HEALTHCHECK_PRINT_INTERVAL_SEC // HEALTHCHECK_INTERVAL_SEC):
\* the checker then goes to sleep; or the division raises, the handler at line
\* 330 logs the error, and the loop goes straight back to the probe
ProbeFail ==
    /\ chk.probe > 0
    /\ ~up
    /\ IF DivisionRaises
       THEN /\ chk' = chk
            /\ fails' = IF Running = 1 /\ fails < FailCap THEN fails + 1 ELSE fails
       ELSE /\ chk' = [chk EXCEPT !.probe = @ - 1, !.sleep = @ + 1]
            /\ fails' = 0
    /\ UNCHANGED <<cfgVars, pool, conns, netVars, status, up, downs, pc,
                   loopVars, conn, histVars>>
    /\ UNCHANGED callVars

\* transport.checkConnection() raises on a tick that logs, and errlog raises
\* (sys.stderr cannot be written): the handler at line 330 catches the first
\* exception and calls errlog again, that exception leaves checker() and the
\* thread ends
ProbeFailLogRaises ==
    /\ chk.probe > 0
    /\ ~up
    /\ chk' = [chk EXCEPT !.probe = @ - 1]
    /\ UNCHANGED <<cfgVars, pool, conns, netVars, status, up, downs, fails, pc,
                   loopVars, conn, histVars, callVars>>

\* (a checker that leaves its loop without setStatus(True))
SetUpForgets ==
    /\ chk.setup > 0
    /\ chk' = [chk EXCEPT !.setup = @ - 1]
    /\ UNCHANGED <<cfgVars, pool, conns, netVars, status, up, downs, fails, pc,
                   loopVars, conn, histVars>>
    /\ UNCHANGED callVars

\* transport.setStatus(True); break
SetUp ==
    /\ chk.setup > 0
    /\ status' = TRUE
    /\ chk' = [chk EXCEPT !.setup = @ - 1]
    /\ UNCHANGED <<cfgVars, pool, conns, netVars, up, downs, fails, pc, loopVars,
                   conn, histVars>>
    /\ UNCHANGED callVars

\* time.sleep(HEALTHCHECK_INTERVAL_SEC) ends
Wake ==
    /\ chk.sleep > 0
    /\ chk' = [chk EXCEPT !.sleep = @ - 1, !.probe = @ + 1]
    /\ UNCHANGED <<cfgVars, pool, conns, netVars, status, up, downs, fails, pc,
                   loopVars, conn, histVars>>
    /\ UNCHANGED callVars

\* ---- the endpoint --------------------------------------------------------------
EndpointUp ==
    /\ ~up
    /\ up' = TRUE
    /\ sawUp' = [s \in Senders |-> IF Idle(s) THEN sawUp[s] ELSE lone]
    /\ failedDown' = FALSE
    /\ UNCHANGED <<cfgVars, pool, conns, netVars, status, chkVars, pc,
                   loopVars, conn, startedDown, usedPool, steady>>
    /\ UNCHANGED callVars

EndpointDown ==
    /\ up
    /\ up' = FALSE
    /\ steady' = FALSE
    /\ UNCHANGED <<cfgVars, pool, conns, netVars, status, chkVars, pc,
                   loopVars, conn, startedDown, sawUp, usedPool, failedDown>>
    /\ UNCHANGED callVars

Checker == ProbeOk \/ ProbeFail \/ ProbeFailLogRaises \/ SetUp \/ Wake
Endpoint == EndpointUp \/ EndpointDown

SenderStep(s) ==
    \/ \E n \in AllSizes : Call(s, n)
    \/ TakePooled(s) \/ TakeCreate(s) \/ TakeFail(s)
    \/ SendOk(s) \/ SendFail(s)
    \/ Except(s) \/ Release(s) \/ Sleep(s)
    \/ WaitTillUp(s) \/ StartThread(s) \/ CloseAll(s)
    \/ CallClose(s) \/ UserClose(s)

Next == (\E s \in Senders : SenderStep(s)) \/ Checker \/ Endpoint

\* concurrent callers
Spec == Init /\ [][Next]_vars

\* a lone caller, whose calls follow each other
SpecSeq == InitSeq /\ [][Next]_vars

\* a lone caller, the transport built from the environment
SpecEnv == InitEnv /\ [][Next]_vars

\* a lone caller, every pair of health-check settings
SpecIntervals == InitIntervals /\ [][Next]_vars

\* a lone caller with longer batches
SpecBatch == InitBatch /\ [][Next]_vars

\* a lone caller; the checker thread runs, and a thread that is started starts
SpecLive ==
    /\ InitLive /\ [][Next]_vars
    /\ WF_vars(Checker)
    /\ WF_vars(\E s \in Senders : StartThread(s))

\* the idle connections
Idles == {pool[i] : i \in 1..Len(pool)}

\* a connection the program no longer refers to: created, not idle, not held
Disposed(c) ==
    c \in 1..nconns /\ c \notin Idles /\ \A s \in Senders : conn[s] # c

\* ---- a Connection used after its close ------------------------------------------
\* Connection.sendall called on a connection that was closed and that neither
\* the pool nor a send refers to any more: _ok = False, then self._sock.sendall
\* returns (_ok = True) or raises; it raises when _sock is None
LateSendall(c) ==
    /\ Disposed(c)
    /\ conns[c].closes >= 1
    /\ \E returns \in BOOLEAN :
          /\ returns => conns[c].sock
          /\ conns' = [conns EXCEPT ![c].ok = returns]
    /\ late' = TRUE
    /\ UNCHANGED <<mode, env, transport, tls_enable, max_attempts, pool_cap, ctr,
                   HEALTHCHECK_INTERVAL_SEC, HEALTHCHECK_PRINT_INTERVAL_SEC,
                   pool, netVars, status, up, chkVars, pc, loopVars, conn,
                   histVars, callVars>>

NextConn == Next \/ \E c \in ConnIds : LateSendall(c)

\* a lone caller, and sendall calls on connections that were closed
InitConn ==
    /\ mode = "conn"
    /\ env = NoEnv
    /\ transport = "NetTransport"
    /\ tls_enable = FALSE
    /\ max_attempts \in 1..MaxAttempts
    /\ pool_cap \in 0..MaxPoolCap
    /\ ctr = NoCounter
    /\ DefaultIntervals
    /\ Start

SpecConn == InitConn /\ [][NextConn]_vars

\* ---- AtomicCounter.nextVal -------------------------------------------------
transportVars == <<mode, env, transport, tls_enable, max_attempts, pool_cap, pool,
                   conns, nconns, socket_count, accepted, status, up, chk, downs,
                   pc, msgs, unencodable, attemptNum, socket_errors, total_msgs, idx, conn, sent,
                   takes, startedDown, sawUp, usedPool, failedDown, steady, exInfo,
                   total_bytes, stats, closedUnder, accSince, wire, fails, late,
                   HEALTHCHECK_INTERVAL_SEC, HEALTHCHECK_PRINT_INTERVAL_SEC>>

\* testCounter: numThreads threads call nextVal of one counter, each maxval
\* times; no transport is built
InitCounter ==
    /\ mode = "counter"
    /\ env = NoEnv
    /\ transport = "None"
    /\ tls_enable = FALSE
    /\ max_attempts = 1
    /\ pool_cap = 0
    /\ up = TRUE
    /\ DefaultIntervals
    /\ \E clz \in Classes, initial \in Initials, T \in (SUBSET Senders) \ {{}} :
            ctr = [NewCounter(clz, initial) EXCEPT !.threads = T]
    /\ Start

\* the thread may call nextVal once more
MayCall(t) ==
    /\ t \in ctr.threads
    /\ ctr.pc[t] = "idle"
    /\ Len(ctr.ret[t]) < MaxCalls

\* AtomicCounterC.nextVal: next(self.value), one call of itertools.count's
\* __next__, which no other thread interleaves with under the GIL
NextValC(t) ==
    /\ ctr.clz = "AtomicCounterC"
    /\ MayCall(t)
    /\ ctr' = [ctr EXCEPT !.value = @ + 1,
                                  !.ret[t] = Append(@, ctr.value)]
    /\ UNCHANGED transportVars

\* (a with statement that does not wait for the lock)
AcquireUnlocked(t) ==
    /\ ctr.clz = "AtomicCounterP"
    /\ MayCall(t)
    /\ ctr' = [ctr EXCEPT !.lock = t, !.pc[t] = "locked"]
    /\ UNCHANGED transportVars

\* AtomicCounterP.nextVal, with self._lock: waits until the lock is free
Acquire(t) ==
    /\ ctr.clz = "AtomicCounterP"
    /\ MayCall(t)
    /\ ctr.lock = NoThread
    /\ ctr' = [ctr EXCEPT !.lock = t, !.pc[t] = "locked"]
    /\ UNCHANGED transportVars

\* v = self.value
ReadValue(t) ==
    /\ ctr.pc[t] = "locked"
    /\ ctr' = [ctr EXCEPT !.v[t] = ctr.value, !.pc[t] = "read"]
    /\ UNCHANGED transportVars

\* self.value += 1
Increment(t) ==
    /\ ctr.pc[t] = "read"
    /\ ctr' = [ctr EXCEPT !.value = @ + 1, !.pc[t] = "incremented"]
    /\ UNCHANGED transportVars

\* return v, leaving the with block: the lock is released
ReturnValue(t) ==
    /\ ctr.pc[t] = "incremented"
    /\ ctr' = [ctr EXCEPT !.lock = NoThread, !.pc[t] = "idle",
                                  !.ret[t] = Append(@, ctr.v[t])]
    /\ UNCHANGED transportVars

NextValP(t) == Acquire(t) \/ ReadValue(t) \/ Increment(t) \/ ReturnValue(t)

NextCounter == \E t \in Senders : NextValC(t) \/ NextValP(t)

\* the threads of testCounter
SpecCounter == InitCounter /\ [][NextCounter]_vars

\* values nextVal has returned, and how many calls have returned
ReturnedBy(t) == {ctr.ret[t][k] : k \in 1..Len(ctr.ret[t])}
Returned == UNION {ReturnedBy(t) : t \in Senders}
NumReturned == Len(ctr.ret["t1"]) + Len(ctr.ret["t2"])
\* no call of nextVal is in progress
CounterQuiet == \A t \in Senders : ctr.pc[t] = "idle"

\* C31: nextVal returns unique, incrementing ids. No value is returned twice;
\* the values returned so far are below the ctr's value and each thread
\* gets increasing values; when no call is in progress, the n calls made
\* returned exactly initial .. initial + n - 1 and the next value is
\* initial + n; the k-th call of a lone thread returns initial + k - 1.
C31_UniqueIncrementingIds ==
    mode = "counter" =>
        /\ Cardinality(Returned) = NumReturned
        /\ \A x \in Returned : ctr.initial <= x /\ x < ctr.value
        /\ \A t \in Senders : \A k \in 1..Len(ctr.ret[t]) :
               k > 1 => ctr.ret[t][k] > ctr.ret[t][k - 1]
        /\ CounterQuiet =>
               /\ Returned = ctr.initial .. (ctr.initial + NumReturned - 1)
               /\ ctr.value = ctr.initial + NumReturned
        /\ \A t \in Senders : ctr.threads = {t} =>
               \A k \in 1..Len(ctr.ret[t]) :
                   ctr.ret[t][k] = ctr.initial + k - 1

\* two threads of a lock-protected counter have each made all their calls
C31_Witness ==
    /\ mode = "counter"
    /\ ctr.clz = "AtomicCounterP"
    /\ ctr.threads = Senders
    /\ CounterQuiet
    /\ \A t \in Senders : Len(ctr.ret[t]) = MaxCalls

\* ---- what the calls and the checker do ----------------------------------------
InCall(s) == ~Idle(s) /\ pc[s] # "userClose"
Raising(s) == pc[s] \in {"waitTillUp", "startThread", "closeAll", "raised"}
AllWritten(s) == \A i \in 1..msgs[s] : sent[s][i] >= 1

\* C1: a send that returns without raising has written every message of its
\* batch at least once during the call.
C1_ReturnMeansAllWritten ==
    \A s \in Senders : pc[s] = "returned" => AllWritten(s)

\* C2: over all attempts of one call no message of the batch is written
\* successfully more than once.
C2_WrittenAtMostOnce ==
    \A s \in Senders : \A i \in 1..Len(sent[s]) : sent[s][i] <= 1

\* C3: send is on its way to raise only when max_attempts attempts of the
\* call have failed and some message of the batch was never written; a call whose
\* attempts completed the batch returns, whatever failed before; the only way
\* into "raised" is the raise at the end of send.
C3_RaisesOnlyWhenExhausted ==
    /\ \A s \in Senders :
          /\ Raising(s) => /\ attemptNum[s] = max_attempts
                           /\ total_msgs[s] < msgs[s]
                           /\ ~AllWritten(s)
          /\ pc[s] = "returned" => total_msgs[s] >= msgs[s]
          /\ pc[s] \in {"except", "release", "sleep"} => attemptNum[s] <= max_attempts

\* C3 happens: a call returned normally after a failed attempt
C3_Witness ==
    \E s \in Senders : pc[s] = "returned" /\ attemptNum[s] >= 1 /\ AllWritten(s)

\* C4: the status goes from UP to DOWN only in waitTillUp of a send that used
\* up max_attempts without sending all messages, and from DOWN to UP only by
\* the checker after a successful probe; the checker sets UP only when the
\* status is DOWN (once per DOWN period); the step in which a send returns
\* leaves the status alone.
C4_StatusTransitions ==
    [][ /\ (status /\ ~status') =>
              \E s \in Senders : /\ pc[s] = "waitTillUp"
                                 /\ pc'[s] = "startThread"
                                 /\ attemptNum[s] = max_attempts
                                 /\ total_msgs[s] < msgs[s]
        /\ (~status /\ status') => chk'.setup = chk.setup - 1
        /\ (chk'.setup < chk.setup) => (~status /\ status')
        /\ (\E s \in Senders : pc[s] # "returned" /\ pc'[s] = "returned") =>
              status' = status
      ]_vars

\* C4 happens: the status is DOWN for the second time
C4_Witness == ~status /\ downs = 2

\* C5: once a send has raised with the endpoint unreachable during the whole
\* call, the status is DOWN for as long as the endpoint stays unreachable.
C5_DownWhileUnreachable == failedDown => ~status

\* C6: at most one health checker runs or is about to be started; a caller is
\* about to start one only after it set the status to DOWN itself, and the
\* status stays DOWN while a checker runs.
C6_OneChecker ==
    /\ Running + Cardinality({s \in Senders : pc[s] = "startThread"}) <= 1
    /\ (Running > 0 \/ \E s \in Senders : pc[s] = "startThread") => ~status

\* C6 happens: two sends failed at the same time, one is about to start the
\* checker and the other went through waitTillUp without starting one
C6_Witness ==
    /\ pc["t1"] = "startThread"
    /\ pc["t2"] = "closeAll"
    /\ attemptNum["t2"] = max_attempts

\* C7: if from some time on the endpoint accepts connections, every DOWN status
\* is followed by UP, by the steps of the checker alone.
C7_Recovery == (<>[]up) => [](~status => <>status)

\* C7 happens: the status is UP again after a DOWN period, no send in between
C7_Witness == status /\ downs >= 1 /\ pc["t1"] = "raised"

\* C8, as stated: a send called while the status is DOWN does not return
\* normally when the endpoint was unreachable during the whole call.
C8_RaisesWhileUnreachable ==
    \A s \in Senders : (startedDown[s] /\ ~sawUp[s]) => pc[s] # "returned"

\* C8, amended: a send called while the status is DOWN asks the pool for a
\* connection in each of its attempts and raises only after max_attempts
\* acquisitions; with the endpoint unreachable during the whole call it returns
\* normally only if it got an idle connection from the pool.
C8_DownDoesNotBlockSend ==
    \A s \in Senders : startedDown[s] =>
        /\ Raising(s) => (takes[s] = max_attempts /\ attemptNum[s] = max_attempts)
        /\ pc[s] = "returned" => (takes[s] >= 1 /\ (sawUp[s] \/ usedPool[s]))
        /\ (InCall(s) /\ pc[s] # "take") => takes[s] >= 1

\* C8 happens: a send called while DOWN delivered its batch and returned, and
\* the status is still DOWN
C8_Witness ==
    \E s \in Senders :
        startedDown[s] /\ pc[s] = "returned" /\ ~status /\ AllWritten(s)

\* C9: no connection is held by two callers, and a connection a caller holds is
\* not among the idle ones.
C9_NoSharedConnection ==
    \A s \in Senders : conn[s] # None =>
        /\ conn[s] \notin Idles
        /\ \A t \in Senders \ {s} : conn[t] # conn[s]

\* C9 happens: two callers are writing, each on a connection it holds
C9_Witness ==
    /\ pc["t1"] = "send" /\ pc["t2"] = "send"
    /\ conn["t1"] # None /\ conn["t2"] # None

\* C10: with pool_cap >= 1, the endpoint up all along and no failure, after any
\* number of sequential sends that returned the sockets_created counter and the
\* number of accepted connections are both 1.
C10_OneConnection ==
    (steady /\ pool_cap >= 1 /\ pc["t1"] = "returned") =>
        (socket_count = 1 /\ accepted = 1)

\* the part of C10 that holds: one connection is created and accepted
PoolReuse ==
    (steady /\ pool_cap >= 1 /\ pc["t1"] = "returned") =>
        (nconns = 1 /\ accepted = 1)

\* C11: in a send whose first attempt failed, every later attempt gets a
\* connection that the socket factory has just created; no later attempt takes
\* an idle connection from the pool.
C11_RetryBypassesPool ==
    [][ \A s \in Senders :
            (pc[s] = "take" /\ pc'[s] = "send" /\ attemptNum[s] >= 1) =>
                (nconns' = nconns + 1 /\ conn'[s] = nconns') ]_vars

\* C12: take hands a caller only good connections: it creates a connection, one
\* at a time, only when no idle connection is left; release of a bad connection
\* closes it and leaves the idle connections as they are.
C12_TakeGoodReleaseBad ==
    [][ \A s \in Senders :
          /\ (pc[s] = "take" /\ pc'[s] = "send") =>
                /\ conn'[s] # None
                /\ conns'[conn'[s]].sock /\ conns'[conn'[s]].ok
                /\ nconns' # nconns => (pool = << >> /\ nconns' = nconns + 1)
                /\ nconns' = nconns =>
                      (pool # << >> /\ conn'[s] = popped(pool)
                                    /\ pool' = afterPop(pool))
          /\ (pc[s] = "take" /\ pc'[s] = "take" /\ Len(pool') < Len(pool)) =>
                \/ ~conns'[popped(pool)].sock
                \/ \E t \in Senders \ {s} : conn'[t] = popped(pool)
          /\ (pc[s] = "release" /\ pc'[s] # "release" /\ conn[s] # None
                                /\ ~isGood(conn[s])) =>
                (pool' = pool /\ ~conns'[conn[s]].sock /\ conn'[s] = None)
      ]_vars

\* C12 happens: a caller is about to release a bad connection while another
\* connection is idle
C12_Witness ==
    \E s \in Senders :
        /\ pc[s] = "release" /\ conn[s] # None /\ ~isGood(conn[s])
        /\ pool # << >>

\* C13: the socket of a connection is closed at most once, whatever sequence of
\* failed writes, reject, release, closeAll and close it goes through, and the
\* socket of every connection that was disposed of has been closed exactly once.
C13_ClosedExactlyOnce ==
    \A c \in ConnIds :
        /\ conns[c].closes <= 1
        /\ Disposed(c) => (conns[c].closes = 1 /\ ~conns[c].sock)

\* the part of C13 that holds: no socket is closed twice, a connection without
\* socket is not good, and a bad connection that was released is closed
SocketClosedAtMostOnce ==
    \A c \in ConnIds :
        /\ conns[c].closes <= 1
        /\ (c \in 1..nconns /\ ~conns[c].sock) => conns[c].closes = 1
        /\ (Disposed(c) /\ ~conns[c].ok) => ~conns[c].sock

\* C14: when a good connection is released into a pool that holds pool_cap idle
\* connections, the oldest idle connection leaves the pool and its socket is
\* closed, and the released connection becomes the newest idle one.
C14_OverflowClosesOldest ==
    [][ \A s \in Senders :
            (/\ pc[s] = "release" /\ pc'[s] # "release"
             /\ conn[s] # None /\ isGood(conn[s])
             /\ pool_cap >= 1 /\ Len(pool) = pool_cap) =>
                /\ pool' = Append(Tail(pool), conn[s])
                /\ ~conns'[Head(pool)].sock
      ]_vars

\* C15: the pool never holds more than pool_cap idle connections, whatever the
\* callers release, and no connection is idle twice.
C15_PoolBounded ==
    /\ Len(pool) <= pool_cap
    /\ Cardinality(Idles) = Len(pool)

\* C15 happens: the pool is full after a release that overflowed it, the
\* connection it dropped is neither idle nor held
C15_Witness ==
    /\ pool_cap >= 1 /\ Len(pool) = pool_cap
    /\ \E c \in ConnIds : Disposed(c) /\ conns[c].sock

\* C16: a turn of closeAll removes one idle connection and closes it, closeAll
\* returns only when no idle connection is left, and it does not touch a
\* connection that a caller holds; a connection that was held while a closeAll
\* returned is closed and not put back in the pool when it is released.
C16_CloseAllAndLateRelease ==
    [][ \A s \in Senders :
          /\ (pc[s] \in {"closeAll", "userClose"} /\ Len(pool') < Len(pool)
                                                  /\ conn' = conn) =>
                /\ pool' = afterPop(pool)
                /\ ~conns'[popped(pool)].sock
                /\ \A t \in Senders :
                      conn[t] # None => conns'[conn[t]] = conns[conn[t]]
          /\ (pc[s] \in {"closeAll", "userClose"} /\ pc'[s] # pc[s]) =>
                (pool = << >> /\ conns' = conns)
          /\ (pc[s] = "release" /\ pc'[s] # "release" /\ closedUnder[s]) =>
                (conn[s] \notin {pool'[i] : i \in 1..Len(pool')}
                    /\ ~conns'[conn[s]].sock)
      ]_vars

\* the part of C16 that holds: closeAll closes the idle connections and leaves
\* the held ones alone
CloseAllClosesIdleOnly ==
    [][ \A s \in Senders :
          /\ (pc[s] \in {"closeAll", "userClose"} /\ Len(pool') < Len(pool)
                                                  /\ conn' = conn) =>
                /\ pool' = afterPop(pool)
                /\ ~conns'[popped(pool)].sock
                /\ \A t \in Senders :
                      conn[t] # None => conns'[conn[t]] = conns[conn[t]]
          /\ (pc[s] \in {"closeAll", "userClose"} /\ pc'[s] # pc[s]) =>
                (pool = << >> /\ conns' = conns)
      ]_vars

\* C17: send raises only from closePoolConnections, at a moment when no idle
\* connection is left in the pool, and every idle connection that
\* closePoolConnections removed on the way has been closed.
C17_PoolEmptyWhenRaised ==
    [][ \A s \in Senders :
          /\ (pc[s] # "raised" /\ pc'[s] = "raised") =>
                (pc[s] = "closeAll" /\ pool = << >> /\ pool' = << >>)
          /\ (pc[s] = "closeAll" /\ pc'[s] = "closeAll"
                /\ Len(pool') < Len(pool) /\ conn' = conn) =>
                ~conns'[popped(pool)].sock
      ]_vars

\* C17 happens: a send that used up its attempts is in closePoolConnections,
\* an idle connection is in the pool and no other caller is active
C17_Witness ==
    \E s \in Senders :
        /\ pc[s] = "closeAll" /\ pool # << >>
        /\ \A t \in Senders \ {s} : Idle(t)

\* C18, as stated: a send that begins with an empty idle pool and the status UP
\* (nothing pooled yet, or the pool emptied by closePoolConnections or by a
\* failed send that was followed by recovery) and returns has made the
\* endpoint accept exactly one connection.
C18_OneNewConnection ==
    (pc["t1"] = "returned" /\ ~usedPool["t1"] /\ ~startedDown["t1"]) =>
        accSince = 1

\* C18, amended: such a send that returns from its first attempt has made the
\* endpoint accept exactly one connection; one that returns after failed
\* attempts has made it accept at least one and at most one per attempt.
C18_OneNewConnectionPerAttempt ==
    (pc["t1"] = "returned" /\ ~usedPool["t1"] /\ ~startedDown["t1"]) =>
        /\ attemptNum["t1"] = 0 => (accSince = 1 /\ takes["t1"] = 1)
        /\ accSince >= 1 /\ accSince <= attemptNum["t1"] + 1

\* C18 happens: after a failed send and the recovery of the status, a send
\* returned from its first attempt on a connection it opened
C18_Witness ==
    /\ pc["t1"] = "returned" /\ ~usedPool["t1"] /\ ~startedDown["t1"]
    /\ attemptNum["t1"] = 0 /\ downs >= 1 /\ status

\* the successful writes of a call, and the bytes they carried
RECURSIVE WritesUpTo(_, _)
WritesUpTo(s, n) == IF n = 0 THEN 0 ELSE WritesUpTo(s, n - 1) + sent[s][n]
RECURSIVE BytesUpTo(_, _)
BytesUpTo(s, n) ==
    IF n = 0 THEN 0 ELSE BytesUpTo(s, n - 1) + sent[s][n] * MsgLen(n)

\* C19: a send that has left its loop, to return or to raise, has added to the
\* sent-messages counter the number of its successful writes, to the sent-bytes
\* counter the sum of the lengths of the messages written, and has recorded
\* its elapsed time once; before that it has added nothing.
C19_StatsOnEveryExit ==
    \A s \in Senders :
        /\ (pc[s] = "returned" \/ Raising(s)) =>
              /\ stats[s].events_sent = WritesUpTo(s, msgs[s])
              /\ stats[s].bytes_sent = BytesUpTo(s, msgs[s])
              /\ stats[s].time_elapsed = 1
        /\ (InCall(s) /\ ~Raising(s)) => stats[s] = NoStats

\* C19 happens: a send raised after one of its writes succeeded and after a
\* failed attempt that wrote nothing
C19_Witness ==
    /\ pc["t1"] = "raised" /\ msgs["t1"] = 2 /\ attemptNum["t1"] = 2
    /\ sent["t1"][1] = 1 /\ sent["t1"][2] = 0
    /\ stats["t1"] = [events_sent |-> 1, bytes_sent |-> 2, time_elapsed |-> 1]

\* raise Exception("Too many failures trying to send events: %s" % exInfo):
\* what the exception that leaves send carries
Raised(s) ==
    [text |-> "Too many failures trying to send events: ", exInfo |-> exInfo[s]]

\* C20: the exception raised by a send that used up its attempts carries the
\* number of messages the call sent and the description of the last error.
C20_ErrorCarriesCountAndCause ==
    \A s \in Senders : pc[s] = "raised" =>
        /\ Raised(s).exInfo = str(attemptNum[s])
        /\ "total_msgs" \in DOMAIN Raised(s)
        /\ Raised(s).total_msgs = total_msgs[s]

\* the part of C20 that holds: the exception carries the description of the
\* exception that ended the last attempt
ErrorCarriesLastCause ==
    \A s \in Senders : pc[s] = "raised" =>
        (attemptNum[s] = max_attempts /\ Raised(s).exInfo = str(max_attempts))

\* the messages of the batch that reached the receiver at least once
Delivered(s) == {i \in 1..msgs[s] : sent[s][i] >= 1}

\* C21: when a send raises, its count of sent messages (total_msgs) equals the
\* number of messages of the batch that were delivered to the receiver.
C21_SentCountIsDelivered ==
    \A s \in Senders : pc[s] = "raised" =>
        total_msgs[s] = Cardinality(Delivered(s))

\* the part of C21 that holds: total_msgs counts the writes that succeeded,
\* each repeated write of a message included
SentCountIsWrites ==
    \A s \in Senders : pc[s] = "raised" =>
        total_msgs[s] = WritesUpTo(s, msgs[s])

\* C22: what an attempt of a send wrote is m1, m2, ... of the batch in input
\* order, all on the one connection of the attempt; a send that returns from
\* its first attempt wrote exactly m1, ..., mk of its batch on one connection.
C22_WrittenInInputOrder ==
    \A s \in Senders :
        /\ \A k \in 1..Len(wire[s]) :
              /\ wire[s][k].m = k
              /\ wire[s][k].conn = wire[s][1].conn
        /\ (pc[s] = "returned" /\ attemptNum[s] = 0) =>
              /\ Len(wire[s]) = msgs[s]
              /\ takes[s] = 1
              /\ \A i \in 1..msgs[s] : sent[s][i] = 1

\* C22 happens: a send of a batch of three returned from its first attempt
C22_Witness ==
    /\ pc["t1"] = "returned" /\ msgs["t1"] = 3 /\ attemptNum["t1"] = 0
    /\ Len(wire["t1"]) = 3

\* the attempt that just ended wrote the whole batch
AttemptCompleted(s) == idx[s] = msgs[s] + 1

\* C23: send sleeps only after a failed attempt that another attempt follows:
\* not after an attempt that completed the batch, and not after the failed
\* attempt that used up max_attempts.
C23_SleepOnlyBeforeRetry ==
    \A s \in Senders : pc[s] = "sleep" =>
        /\ ~AttemptCompleted(s)
        /\ LoopContinues(total_msgs[s], msgs[s], attemptNum[s])

\* the part of C23 that holds: no sleep once max_attempts attempts failed
NoSleepAfterLastAttempt ==
    \A s \in Senders : pc[s] = "sleep" => attemptNum[s] < max_attempts

\* how far a call has come: the connections it asked for, then its place in the
\* attempt (or after the loop), then its place in the batch
Phase(s) ==
    CASE pc[s] = "send" -> 10 + idx[s]
      [] pc[s] = "except" -> 30
      [] pc[s] = "release" -> 40
      [] pc[s] = "sleep" -> 50
      [] pc[s] = "take" -> 60
      [] pc[s] = "waitTillUp" -> 70
      [] pc[s] = "startThread" -> 80
      [] pc[s] = "closeAll" -> 90
      [] OTHER -> 99
Progress(s) == 100 * takes[s] + Phase(s)

\* C24: a send asks the pool for a connection at most max_attempts times, and
\* every step of the call brings it nearer to its return or raise (or takes a
\* connection out of the pool), so every call ends after at most max_attempts
\* attempts whatever connects and writes fail.
C24_SendTerminates ==
    [][\A s \in Senders :
          /\ takes'[s] <= max_attempts
          /\ (InCall(s) /\ <<pc[s], idx[s], takes[s]>>' # <<pc[s], idx[s], takes[s]>>)
                => Progress(s)' > Progress(s)
          /\ (InCall(s) /\ <<pc[s], idx[s], takes[s]>>' = <<pc[s], idx[s], takes[s]>>
                /\ pool' # pool)
                => Len(pool') < Len(pool)]_vars

\* C24 happens: a send raised after max_attempts = 2 connection acquisitions
C24_Witness ==
    /\ pc["t1"] = "raised" /\ max_attempts = 2 /\ takes["t1"] = 2
    /\ attemptNum["t1"] = 2

\* C25: a health checker ends only in the step in which it sets the status to
\* UP after a probe that succeeded; while its probes fail it goes on, whatever
\* a probe or the logging raises.
C25_CheckerEndsOnlyAfterUp ==
    [][Running' < Running => (chk.setup > 0 /\ status')]_vars

\* the part of C25 that holds: a checker that does not end with the status UP
\* ends in a failed probe whose log line and whose handler's log line both raise
CheckerEndsUpOrInLogging ==
    [][Running' < Running =>
          \/ (chk.setup > 0 /\ status')
          \/ (chk.probe > 0 /\ ~up /\ ~status /\ UNCHANGED status)]_vars

\* the status is DOWN and no checker runs or is about to be started
CheckerLost ==
    ~status /\ Running = 0 /\ \A s \in Senders : pc[s] # "startThread"

\* the part of C7 that holds: if from some time on the endpoint accepts
\* connections, every DOWN status is followed by UP or by the loss of the
\* checker
RecoveryWhileCheckerLives ==
    (<>[]up) => [](~status => <>(status \/ CheckerLost))

\* a step made while statusLock is held: the check-and-set of waitTillUp, or a
\* setStatus
HoldsStatusLock ==
    \/ status' # status
    \/ \E s \in Senders : pc[s] = "waitTillUp" /\ pc'[s] # "waitTillUp"

\* C26: statusLock is never held during a socket operation or a sleep: a step
\* that holds the lock makes no connection, closes none, writes nothing, and
\* neither starts nor ends a sleep of the checker or of a send.
C26_NoIOUnderStatusLock ==
    [][HoldsStatusLock =>
          /\ UNCHANGED <<accepted, nconns, socket_count, conns, pool, sent>>
          /\ chk'.sleep = chk.sleep
          /\ chk'.probe = chk.probe
          /\ \A s \in Senders : (pc[s] = "sleep") = (pc'[s] = "sleep")]_vars

\* C26 happens: a send is about to take statusLock in waitTillUp while the
\* checker sleeps between two probes
C26_Witness == pc["t1"] = "waitTillUp" /\ chk.sleep = 1 /\ ~status

\* C27: the sockets_created counter equals the number of connections the socket
\* factory created for the pool, in plain TCP mode and in TLS mode alike.
C27_CounterCountsCreations == socket_count = nconns

\* the part of C27 that holds: in plain TCP mode the counter equals the number
\* of connections created for the pool (the probes of the checker are left
\* out); in TLS mode it stays 0
CounterCountsPlainOnly ==
    socket_count = (IF tls_enable THEN 0 ELSE nconns)

\* sendall raised and the caller is in its except clause
SendallRaised(s) == pc[s] = "except" /\ conn[s] # None
\* the last sendall of the call returned and the caller still holds the
\* connection
SendallReturned(s) ==
    /\ conn[s] # None
    /\ \/ pc[s] = "send" /\ idx[s] > 1
       \/ pc[s] = "release" /\ AttemptCompleted(s)
\* the message sendall raised for is a str that cannot be encoded
EncodingRaised(s) ==
    SendallRaised(s) /\ MessageAt(msgs[s], idx[s]) = unencodable[s]

\* C28, as stated: when sendall raises the connection is flagged bad when the
\* error reaches the caller, and after a sendall that returned it is good.
C28_RaiseMeansBad ==
    \A s \in Senders :
        /\ SendallRaised(s) => ~isGood(conn[s])
        /\ SendallReturned(s) => isGood(conn[s])

\* C28, amended: when sendall raises from the write on the socket the
\* connection is flagged bad when the error reaches the caller; when it raises
\* while it encodes a str message nothing was written and the connection is
\* still flagged good; after a sendall that returned it is good.
C28_WriteErrorMeansBad ==
    \A s \in Senders :
        /\ SendallRaised(s) => (isGood(conn[s]) <=> EncodingRaised(s))
        /\ SendallReturned(s) => isGood(conn[s])

\* C28 happens: the second sendall of an attempt raised from the write, after
\* the first returned
C28_Witness ==
    /\ SendallRaised("t1") /\ ~EncodingRaised("t1")
    /\ idx["t1"] = 2 /\ ~isGood(conn["t1"])

\* C29: with pool_cap = 0 the idle pool stays empty, every attempt of a send
\* gets a connection that was just created, and the socket of the connection is
\* closed when the send has released it.
C29_NothingPooledAtCapZero ==
    [][pool_cap = 0 =>
          /\ pool' = << >>
          /\ \A s \in Senders :
                /\ (pc[s] = "take" /\ pc'[s] = "send") =>
                      (nconns' = nconns + 1 /\ conn'[s] = nconns')
                /\ (pc[s] = "release" /\ pc'[s] # "release" /\ conn[s] # None)
                      => ~conns'[conn[s]].sock]_vars

\* the part of C29 that holds: with pool_cap = 0 the idle pool stays empty and
\* every attempt gets a connection that was just created
NothingIdleAtCapZero ==
    [][pool_cap = 0 =>
          /\ pool' = << >>
          /\ \A s \in Senders :
                (pc[s] = "take" /\ pc'[s] = "send") =>
                    (nconns' = nconns + 1 /\ conn'[s] = nconns')]_vars

\* the endpoint configuration lacks the host or the port, or the port is not a
\* number
MissingEndpoint ==
    \/ getConfigSetting(env, "EVENTLOG_HOST", "") = ""
    \/ getConfigSetting(env, "EVENTLOG_PORT", "0") = "0"
MalformedPort == ~IsNumber(getConfigSetting(env, "EVENTLOG_PORT", "0"))

TightLoop == fails >= 2

\* C32: between any two consecutive failed probes the health checker sleeps one
\* health-check interval, for every pair of check interval and print interval:
\* no checker fails two probes in a row without a sleep between them.
C32_SleepsBetweenFailedProbes == ~TightLoop

\* the part of C32 that holds: a print interval that is at least the check
\* interval gives a divisor of at least 1, and every failed probe is followed
\* by a sleep
SleepsWhenPrintNotShorter ==
    HEALTHCHECK_PRINT_INTERVAL_SEC >= HEALTHCHECK_INTERVAL_SEC => fails = 0

\* the attempt of the caller failed and its handler has run
HandlerRan(s) == pc[s] = "except" /\ pc'[s] = "release"

\* C33: each failed attempt of send (no connection obtained, or a write that
\* failed) runs the handler once, which rejects the connection in use, if any,
\* and adds exactly one to the socket-errors counter and to attemptNum; nothing
\* else changes the two counters during a call, and a send that raises has
\* added exactly max_attempts to the socket-errors counter.
C33_FailedAttemptCounted ==
    [][\A s \in Senders :
          /\ ((pc[s] = "take" /\ pc'[s] \notin {"take", "send"}) \/
              (pc[s] = "send" /\ pc'[s] \notin {"send", "release"}))
                 => pc'[s] = "except"
          /\ HandlerRan(s) =>
                 /\ socket_errors'[s] = socket_errors[s] + 1
                 /\ attemptNum'[s] = attemptNum[s] + 1
                 /\ conn[s] # None => ~conns'[conn[s]].ok
          /\ (InCall(s) /\ ~HandlerRan(s)) =>
                 (socket_errors'[s] = socket_errors[s] /\ attemptNum'[s] = attemptNum[s])
          /\ Raising(s)' => socket_errors'[s] = max_attempts
    ]_vars

\* a send has raised after max_attempts failed attempts, one of which held a
\* connection taken from the pool
C33_Witness ==
    /\ pc["t1"] = "raised"
    /\ max_attempts = MaxAttempts
    /\ socket_errors["t1"] = max_attempts
    /\ takes["t1"] = max_attempts
    /\ usedPool["t1"]

\* checkers that run or are about to be started by a caller that has set the
\* status to DOWN
CheckersDue == Running + Cardinality({s \in Senders : pc[s] = "startThread"})

\* C34: the transport is never stuck DOWN without a checker: in every state in
\* which the status is DOWN exactly one health checker is running or is about
\* to be started by the caller that set the status to DOWN.
C34_DownHasItsChecker == ~status => CheckersDue = 1

\* the part of C34 that holds: while the status is DOWN the one checker stays
\* until the status is UP, unless it is the checker whose probe failed and
\* whose logging raised
DownKeepsCheckerButForLogging ==
    [][(~status /\ CheckersDue = 1) =>
          (status' \/ CheckersDue' = 1 \/ (chk.probe > 0 /\ ~up))]_vars

\* C35: every connection in the idle pool is good (its socket is open and its
\* ok flag is set), is not held by any sender, and is in the pool only once.
C35_IdleConnectionsGoodAndFree ==
    \A i \in 1..Len(pool) :
        /\ conns[pool[i]].sock /\ conns[pool[i]].ok
        /\ \A s \in Senders : conn[s] # pool[i]
        /\ \A j \in 1..Len(pool) : pool[j] = pool[i] => j = i

\* a connection is idle in the pool while a caller writes on another one
C35_Witness ==
    /\ pool # << >>
    /\ \E s \in Senders : pc[s] = "send" /\ conn[s] # None

\* no caller is inside send
NoSendInProgress == \A s \in Senders : ~InCall(s)
\* connections whose socket has been closed
Closed == {c \in 1..nconns : ~conns[c].sock}

\* C36: no connection leak: whenever no send is in progress, every connection
\* the pool ever created is either idle in the pool or has had its socket
\* closed (created = idle + closed), for every pool capacity, 0 included.
C36_NoConnectionLeak ==
    NoSendInProgress =>
        /\ nconns = Cardinality(Idles) + Cardinality(Closed)
        /\ Idles \cap Closed = {}

\* close() or reject() has run on the connection
WasClosed(c) == conns[c].closes >= 1

\* C37: a Connection that has been closed or rejected never becomes good again:
\* in every state after its close() or reject(), isGood() is false, also after a
\* further sendall on it, and it is not in the idle pool.
C37_ClosedNeverGoodAgain ==
    \A c \in ConnIds : WasClosed(c) => (~isGood(c) /\ c \notin Idles)

\* sendall was called on a connection after it was rejected, and its caller has
\* gone on to another attempt
C37_Witness ==
    /\ late
    /\ \E c \in ConnIds : WasClosed(c) /\ Disposed(c)
    /\ pc["t1"] = "send" /\ attemptNum["t1"] >= 1
====
